---------------------------- MODULE Spec2Model ----------------------------
(***************************************************************************)
(* Lumio study planner (src/app.py): the weekly session allocator          *)
(* ai_generate_plan, the urgency ranking get_priority_order, the           *)
(* productivity score calc_productivity_score, and the request handlers    *)
(* that store and regenerate sessions.                                     *)
(*                                                                         *)
(* Hours are held as integers in hundredths of an hour (0.01 h), so that   *)
(* 3.0 h is 300 and one decimal place is a multiple of 10.  Python's       *)
(* round(x, 1) is the nearest multiple of 10; when x lies exactly halfway  *)
(* (x.x5) the binary float that stands for x decides the direction         *)
(* (round(0.15, 1) = 0.1, round(0.25, 1) = 0.2, round(0.45, 1) = 0.5,      *)
(* round(0.05, 1) = 0.1), so a halfway value may go either way here.       *)
(***************************************************************************)
EXTENDS Integers, Sequences, FiniteSets

VARIABLES
    subjects,       \* argument: the subject list handed to the function
    hours_per_day,  \* argument: the daily capacity, in hundredths of an hour
    frame,          \* locals of the running ai_generate_plan call
    ranked,         \* what get_priority_order returned
    sessions_arg,   \* argument: the session list handed to calc_productivity_score
    score,          \* what calc_productivity_score returned
    db_subjects,    \* table subjects: rows [id, user_id, total_hours, priority, deadline]
    db_sessions,    \* table sessions: rows [id, subject_id, day_name, hours, week_start, status]
    db_settings,    \* table settings: hours_per_day of each registered user, by user id
    subject_seq,    \* AUTOINCREMENT of subjects: the last id given
    session_seq,    \* AUTOINCREMENT of sessions: the last id given
    week,           \* get_week_start(): the current week
    response,       \* the body of the last response
    reqs,           \* the regenerations running side by side, each on its own connection
    db_lock,        \* the request whose connection holds the write lock of the database, or 0
    commits         \* the requests that committed a regeneration, in commit order

\* the arguments and results of the functions called on their own
callVars == <<subjects, hours_per_day, frame, ranked, sessions_arg, score>>

\* the database, the clock and the last response
\* the requests in progress and their connections
connVars == <<reqs, db_lock, commits>>

dbVars == <<db_subjects, db_sessions, db_settings, subject_seq, session_seq, week, response,
            connVars>>

vars == <<callVars, dbVars>>

\* what a call of ai_generate_plan leaves alone
planFixed == <<subjects, hours_per_day, ranked, sessions_arg, score, dbVars>>

---------------------------------------------------------------------------
(* Bounds of the model *)

\* longest subject list handed to a function
MaxSubjects == 2
\* blocks one ai_generate_plan call may emit before the model stops following it
MaxBlocks == 10

---------------------------------------------------------------------------
(* Values *)

\* src/app.py:110
DAYS == <<"Monday", "Tuesday", "Wednesday", "Thursday", "Friday", "Saturday", "Sunday">>

DayNames == {DAYS[i] : i \in 1..Len(DAYS)}

\* one decimal place, in hundredths of an hour: round(x, 1)
Tenth == 10

\* a deadline string that parses, off days after today, and one that does not
DateIn(off) == [parses |-> TRUE, offset |-> off]
BadDate == [parses |-> FALSE, offset |-> 0]

Min2(a, b) == IF a <= b THEN a ELSE b
Max2(a, b) == IF a >= b THEN a ELSE b

\* round(x, 1): the multiples of Tenth nearest to x (two of them when x is halfway)
Round1(x) ==
    LET lo == (x \div Tenth) * Tenth
        r  == x % Tenth
    IN  IF 2 * r < Tenth THEN {lo}
        ELSE IF 2 * r > Tenth THEN {lo + Tenth}
        ELSE {lo, lo + Tenth}

\* days_until: whole days to the deadline, at least 1; 30 when the string does not parse
days_until(deadline) ==
    IF deadline.parses THEN Max2(1, deadline.offset) ELSE 30

---------------------------------------------------------------------------
(* Urgency ranking *)

(* The urgency key is a Python float (an IEEE-754 double): 100 / d and the sum
   priority * 10 + ... are each rounded to 53 significant bits, to nearest, ties to
   even.  A double >= 0 is held here as its integer part and the bits of its
   fraction: [int |-> i, frac |-> <<b1, b2, ...>>] is i + b1/2 + b2/4 + ... *)

\* significant bits of a double
SigBits == 53

RECURSIVE BitLen(_)
BitLen(n) == IF n = 0 THEN 0 ELSE 1 + BitLen(n \div 2)

\* zero bits before the first 1 in the binary fraction r / d, 0 < r < d
RECURSIVE LeadingZeros(_, _)
LeadingZeros(r, d) == IF 2 * r >= d THEN 0 ELSE 1 + LeadingZeros(2 * r, d)

\* zero bits at the head of a bit sequence
RECURSIVE ZerosOf(_)
ZerosOf(bits) ==
    IF bits = <<>> \/ Head(bits) = 1 THEN 0 ELSE 1 + ZerosOf(Tail(bits))

\* the first n bits of the binary fraction r / d, and what is left after them
RECURSIVE FracBits(_, _, _)
FracBits(r, d, n) ==
    IF n = 0 THEN <<>>
    ELSE IF 2 * r >= d THEN <<1>> \o FracBits(2 * r - d, d, n - 1)
    ELSE <<0>> \o FracBits(2 * r, d, n - 1)

RECURSIVE FracRem(_, _, _)
FracRem(r, d, n) == IF n = 0 THEN r ELSE FracRem((2 * r) % d, d, n - 1)

\* fraction bits a double keeps for a value with integer part i, or, when i = 0,
\* with z zero bits at the head of its fraction
KeptBits(i, z) == IF i > 0 THEN SigBits - BitLen(i) ELSE z + SigBits

\* one unit in the last place added to a bit sequence
RECURSIVE IncBits(_)
IncBits(bits) ==
    IF bits = <<>> THEN [bits |-> <<>>, carry |-> 1]
    ELSE LET n == Len(bits)
         IN  IF bits[n] = 0
             THEN [bits |-> SubSeq(bits, 1, n - 1) \o <<1>>, carry |-> 0]
             ELSE LET up == IncBits(SubSeq(bits, 1, n - 1))
                  IN  [bits |-> up.bits \o <<0>>, carry |-> up.carry]

\* i + 0.bits (and, with sticky, something more beyond the bits) rounded to keep
\* fraction bits: to nearest, ties to even
RoundAt(i, bits, keep, sticky) ==
    IF Len(bits) <= keep THEN [int |-> i, frac |-> bits]
    ELSE LET guard == bits[keep + 1]
             rest  == sticky \/ \E k \in (keep + 2)..Len(bits) : bits[k] = 1
             odd   == IF keep = 0 THEN i % 2 = 1 ELSE bits[keep] = 1
             kept  == SubSeq(bits, 1, keep)
             inc   == IncBits(kept)
         IN  IF guard = 1 /\ (rest \/ odd)
             THEN [int |-> i + inc.carry, frac |-> inc.bits]
             ELSE [int |-> i, frac |-> kept]

\* the double n / d, for integers n >= 0 and d > 0
FloatDiv(n, d) ==
    LET i == n \div d
        r == n % d
    IN  IF r = 0 THEN [int |-> i, frac |-> <<>>]
        ELSE LET keep == KeptBits(i, IF i = 0 THEN LeadingZeros(r, d) ELSE 0)
             IN  RoundAt(i, FracBits(r, d, keep + 1), keep, FracRem(r, d, keep + 1) # 0)

\* the double k + x, for an integer k >= 0 and a double x >= 0
FloatAdd(k, x) ==
    LET i == k + x.int
    IN  RoundAt(i, x.frac, KeptBits(i, ZerosOf(x.frac)), FALSE)

\* a < b on bit sequences read as binary fractions
RECURSIVE FracLess(_, _)
FracLess(a, b) ==
    IF b = <<>> THEN FALSE
    ELSE IF a = <<>> THEN \E k \in 1..Len(b) : b[k] = 1
    ELSE IF Head(a) # Head(b) THEN Head(a) < Head(b)
    ELSE FracLess(Tail(a), Tail(b))

\* x < y on doubles
FloatLess(x, y) ==
    x.int < y.int \/ (x.int = y.int /\ FracLess(x.frac, y.frac))

\* lines 133-135: priority * 10 + min(50, 100 / d), as Python computes it
FloatUrgency(priority, d) ==
    LET q == FloatDiv(100, d)
        fifty == [int |-> 50, frac |-> <<>>]
    IN  FloatAdd(priority * 10, IF FloatLess(q, fifty) THEN q ELSE fifty)

\* the days-left values of the model, and the keys of all of them
DaysLeftRange == 1..30

UrgencyKeys ==
    [pd \in (0..4) \X DaysLeftRange |-> FloatUrgency(pd[1], pd[2])]

\* the urgency key of lines 133-135 (and 164-166)
urgency(s) == UrgencyKeys[<<s["priority"], days_until(s.deadline)>>]

\* u < v on urgency keys
UrgencyLess(u, v) == FloatLess(u, v)

\* the insertion that puts s before the elements of equal urgency too
RECURSIVE InsertDescUnstable(_, _)
InsertDescUnstable(s, out) ==
    IF out = <<>> THEN <<s>>
    ELSE IF ~UrgencyLess(urgency(s), urgency(Head(out))) THEN <<s>> \o out
    ELSE <<Head(out)>> \o InsertDescUnstable(s, Tail(out))

\* sorted(..., key=urgency, reverse=True) is stable: s goes before the first element
\* of the sorted prefix whose urgency is strictly smaller
RECURSIVE InsertDesc(_, _)
InsertDesc(s, out) ==
    IF out = <<>> THEN <<s>>
    ELSE IF UrgencyLess(urgency(Head(out)), urgency(s)) THEN <<s>> \o out
    ELSE <<Head(out)>> \o InsertDesc(s, Tail(out))

RECURSIVE SortFrom(_, _)
SortFrom(rest, out) ==
    IF rest = <<>> THEN out
    ELSE SortFrom(Tail(rest), InsertDesc(Head(rest), out))

\* sorted(subjects, key=urgency, reverse=True)
SortedByUrgency(subs) == SortFrom(subs, <<>>)

\* lines 162-167
get_priority_order(subs) == SortedByUrgency(subs)

---------------------------------------------------------------------------
(* calc_productivity_score.  The quotient done_h / total_h * 100 is taken exactly;
   round(x) is Python's: to the nearest integer, a half to the even one. *)

\* round(num / den) for den > 0
RoundHalfEven(num, den) ==
    LET q == num \div den
        r == num % den
    IN  IF 2 * r < den THEN q
        ELSE IF 2 * r > den THEN q + 1
        ELSE IF q % 2 = 0 THEN q ELSE q + 1

RECURSIVE SumField(_, _)
SumField(list, field) ==
    IF list = <<>> THEN 0 ELSE Head(list)[field] + SumField(Tail(list), field)

\* line 172: the sessions whose status is missed
MissedCount(sess) == Len(SelectSeq(sess, LAMBDA x : x["status"] = "missed"))

\* the penalty without its ceiling
PenaltyUncapped(missed) == missed * 3

\* line 176: penalty = min(missed * 3, 25)
Penalty(missed) == Min2(missed * 3, 25)

\* line 177: max(0, .)
ClampScore(x) == Max2(0, x)

\* lines 169-177
calc_productivity_score(subs, sess) ==
    LET total_h == SumField(subs, "total_hours")
        done_h  == SumField(subs, "completed_hours")
        missed  == MissedCount(sess)
    IN  IF total_h = 0 THEN 0
        ELSE ClampScore(RoundHalfEven(100 * done_h - Penalty(missed) * total_h, total_h))

---------------------------------------------------------------------------
(* ai_generate_plan, one loop iteration at a time.  A frame holds the locals
   of the call: pc is "for" at the head of the for loop, "while" at the test
   of the while loop, "done" once the plan is returned. *)

EmptyPlan == [d \in DayNames |-> <<>>]

\* lines 128-140: the empty plan; an empty subject list returns it at once
EnterFrame(subs) ==
    [pc          |-> IF subs = <<>> THEN "done" ELSE "for",
     sorted_subs |-> IF subs = <<>> THEN <<>> ELSE SortedByUrgency(subs),
     sub_i       |-> 0,
     remaining   |-> 0,
     day_idx     |-> 0,
     day_hours   |-> 0,
     plan        |-> EmptyPlan]

\* the subject the for loop is at
CurrentSub(f) == f.sorted_subs[f.sub_i]

\* line 144: while remaining > 0 and day_idx < 7
WhileCond(f) == f.remaining > 0 /\ f.day_idx < 7

\* the room left today with the hours already placed forgotten
AvailableNoCarry(f, hpd) == hpd

\* line 145: available = hours_per_day - day_hours
Available(f, hpd) == hpd - f.day_hours

\* the test of line 146 with < for <=
NoRoomStrict(f, hpd) == Available(f, hpd) < 0

\* line 146: if available <= 0
NoRoom(f, hpd) == Available(f, hpd) <= 0

\* the block ceiling with the low tier given the medium tier's 2 h
MaxBlockOfLowAsMedium(sub) ==
    IF sub["priority"] = 3 THEN 300 ELSE 200

\* line 151: 3 h for priority 3, 2 h for priority 2, 1.5 h for anything else
MaxBlockOf(sub) ==
    IF sub["priority"] = 3 THEN 300 ELSE IF sub["priority"] = 2 THEN 200 ELSE 150

\* line 152: block = round(min(remaining, available, max_block), 1)
BlockChoices(f, hpd) ==
    Round1(Min2(f.remaining, Min2(Available(f, hpd), MaxBlockOf(CurrentSub(f)))))

\* lines 156-158: the day is full once day_hours >= hours_per_day
DayFull(dh, hpd) == dh >= hpd

\* line 142-143: the next subject, or the return after the last one
ForFrame(f) ==
    IF f.sub_i < Len(f.sorted_subs)
    THEN [f EXCEPT !.sub_i = @ + 1,
                   !.remaining = f.sorted_subs[f.sub_i + 1]["total_hours"],
                   !.pc = "while"]
    ELSE [f EXCEPT !.pc = "done"]

\* lines 146-149: no room left today
SkipDayFrame(f) == [f EXCEPT !.day_idx = @ + 1, !.day_hours = 0]

\* the block put at the head of the day's list
EmitFramePrepend(f, hpd, block, rem, dh) ==
    [f EXCEPT !.plan[DAYS[f.day_idx + 1]] =
                  <<[subject_id |-> CurrentSub(f)["id"], hours |-> block]>> \o @,
              !.remaining = rem,
              !.day_idx   = IF DayFull(dh, hpd) THEN @ + 1 ELSE @,
              !.day_hours = IF DayFull(dh, hpd) THEN 0 ELSE dh]

\* lines 153-158 with block, remaining and day_hours as rounded
EmitFrame(f, hpd, block, rem, dh) ==
    [f EXCEPT !.plan[DAYS[f.day_idx + 1]] =
                  Append(@, [subject_id |-> CurrentSub(f)["id"], hours |-> block]),
              !.remaining = rem,
              !.day_idx   = IF DayFull(dh, hpd) THEN @ + 1 ELSE @,
              !.day_hours = IF DayFull(dh, hpd) THEN 0 ELSE dh]

\* lines 152-158: the frames an emitted block may lead to, one per way the three
\* round(., 1) of lines 152, 154 and 155 may fall
EmitFrames(f, hpd) ==
    UNION {UNION {{EmitFrame(f, hpd, block, rem, dh) : dh \in Round1(f.day_hours + block)}
                  : rem \in Round1(f.remaining - block)}
           : block \in BlockChoices(f, hpd)}

\* line 144, the test failing: back to the for loop
WhileExitFrame(f) == [f EXCEPT !.pc = "for"]

\* lines 142-160 from a frame on: the plans the call may return
RECURSIVE RunFrame(_, _)
RunFrame(f, hpd) ==
    IF f.pc = "done" THEN {f.plan}
    ELSE IF f.pc = "for" THEN RunFrame(ForFrame(f), hpd)
    ELSE IF ~WhileCond(f) THEN RunFrame(WhileExitFrame(f), hpd)
    ELSE IF NoRoom(f, hpd) THEN RunFrame(SkipDayFrame(f), hpd)
    ELSE UNION {RunFrame(g, hpd) : g \in EmitFrames(f, hpd)}

\* lines 119-160, the whole call
ai_generate_plan(subs, hpd) == RunFrame(EnterFrame(subs), hpd)

\* blocks in a plan
RECURSIVE SumLen(_, _)
SumLen(p, i) == IF i = 0 THEN 0 ELSE Len(p[DAYS[i]]) + SumLen(p, i - 1)

NumBlocks(p) == SumLen(p, Len(DAYS))

---------------------------------------------------------------------------
(* SpecPlan: one call of ai_generate_plan on every input of the bounded sets *)

\* total_hours: 0, 0.04, 0.05, 0.26, 1.0, 3.5
HourChoices == {0, 4, 5, 26, 100, 350}

\* hours_per_day: -1.0, 0, 0.04, 0.1, 0.26, 1.0, 5.0
CapChoices == {0 - 100, 0, 4, 10, 26, 100, 500}

\* priority: low, medium, high, and one value out of range
PriorityChoices == 1..4

\* deadline of the planned subjects: the order of the plan is then the order of the
\* priorities (the ranking itself is checked under SpecRank)
PlanDeadlines == {DateIn(30)}

\* the subject lists of length n, ids in list order
SubjectLists(n, hours, prios, dls) ==
    {[i \in 1..n |-> [id |-> i, total_hours |-> th[i], priority |-> pr[i], deadline |-> dl[i]]] :
        <<th, pr, dl>> \in [1..n -> hours] \X [1..n -> prios] \X [1..n -> dls]}

NotCalled == [pc |-> "call", sorted_subs |-> <<>>, sub_i |-> 0, remaining |-> 0,
              day_idx |-> 0, day_hours |-> 0, plan |-> EmptyPlan]

NotRanked == [returned |-> FALSE, value |-> <<>>]

NotScored == [returned |-> FALSE, value |-> 0]

\* the database as init_db leaves it, with no user registered
NoDb ==
    /\ db_subjects = {}
    /\ db_sessions = {}
    /\ db_settings = <<>>
    /\ subject_seq = 0
    /\ session_seq = 0
    /\ week = 0
    /\ response = [ok |-> TRUE]
    /\ reqs = <<>>
    /\ db_lock = 0
    /\ commits = <<>>

PlanInit ==
    /\ subjects \in UNION {SubjectLists(n, HourChoices, PriorityChoices, PlanDeadlines) :
                              n \in 0..MaxSubjects}
    /\ hours_per_day \in CapChoices
    /\ frame = NotCalled
    /\ ranked = NotRanked
    /\ sessions_arg = <<>>
    /\ score = NotScored
    /\ NoDb

\* lines 128-140
Enter ==
    /\ frame.pc = "call"
    /\ frame' = EnterFrame(subjects)
    /\ UNCHANGED planFixed

\* lines 142-143
ForNext ==
    /\ frame.pc = "for"
    /\ frame' = ForFrame(frame)
    /\ UNCHANGED planFixed

\* line 144, the test failing: on to the next subject
WhileExit ==
    /\ frame.pc = "while"
    /\ ~WhileCond(frame)
    /\ frame' = WhileExitFrame(frame)
    /\ UNCHANGED planFixed

\* lines 145-149
SkipDay ==
    /\ frame.pc = "while"
    /\ WhileCond(frame)
    /\ NoRoom(frame, hours_per_day)
    /\ frame' = SkipDayFrame(frame)
    /\ UNCHANGED planFixed

\* lines 150-158
EmitBlock ==
    /\ frame.pc = "while"
    /\ WhileCond(frame)
    /\ ~NoRoom(frame, hours_per_day)
    /\ NumBlocks(frame.plan) < MaxBlocks
    /\ frame' \in EmitFrames(frame, hours_per_day)
    /\ UNCHANGED planFixed

PlanNext == Enter \/ ForNext \/ WhileExit \/ SkipDay \/ EmitBlock

SpecPlan == PlanInit /\ [][PlanNext]_vars

---------------------------------------------------------------------------
(* SpecRank: get_priority_order, and the sort at the head of ai_generate_plan, on
   every subject list of the bounded sets *)

\* deadlines: passed, tomorrow, in 2, 6 and 15 days, and one that does not parse
RankDeadlines ==
    {DateIn(0 - 3), DateIn(1), DateIn(2), DateIn(6), DateIn(15), BadDate}

\* the priorities the subject form offers
RankPriorities == 1..3

RankInit ==
    /\ subjects \in UNION {SubjectLists(n, {100}, RankPriorities, RankDeadlines) :
                              n \in 0..MaxSubjects}
    /\ hours_per_day = 500
    /\ frame = NotCalled
    /\ ranked = NotRanked
    /\ sessions_arg = <<>>
    /\ score = NotScored
    /\ NoDb

\* lines 162-167
GetPriorityOrder ==
    /\ ~ranked.returned
    /\ ranked' = [returned |-> TRUE, value |-> get_priority_order(subjects)]
    /\ UNCHANGED <<subjects, hours_per_day, frame, sessions_arg, score, dbVars>>

RankNext == GetPriorityOrder \/ Enter

SpecRank == RankInit /\ [][RankNext]_vars

---------------------------------------------------------------------------
(* SpecScore: calc_productivity_score on every subject list of the bounded sets, and
   again each time one more session is missed *)

\* sessions a score is computed for, at most
MaxMissed == 10

\* total_hours and completed_hours of the scored subjects: 0, 0.5, 1.0, 2.0, 4.0, 4.5
ScoreTotals == {0, 100, 400}

ScoreCompleted == {0, 50, 200, 450}

ScoreSubjects(n) ==
    {[i \in 1..n |-> [id |-> i, total_hours |-> th[i], completed_hours |-> ch[i]]] :
        <<th, ch>> \in [1..n -> ScoreTotals] \X [1..n -> ScoreCompleted]}

SessionOf(status) ==
    [subject_id |-> 1, day_name |-> "Monday", hours |-> 100, status |-> status]

ScoreInit ==
    /\ subjects \in UNION {ScoreSubjects(n) : n \in 0..MaxSubjects}
    /\ sessions_arg \in {<<>>, <<SessionOf("done"), SessionOf("pending")>>}
    /\ score = NotScored
    /\ hours_per_day = 500
    /\ frame = NotCalled
    /\ ranked = NotRanked
    /\ NoDb

\* lines 169-177, on the sessions as they are
FirstScore ==
    /\ ~score.returned
    /\ score' = [returned |-> TRUE,
                  value |-> calc_productivity_score(subjects, sessions_arg)]
    /\ UNCHANGED <<subjects, hours_per_day, frame, ranked, sessions_arg, dbVars>>

\* lines 169-177 again, the subjects as they were and one more session missed
ScoreAfterMiss ==
    /\ score.returned
    /\ Len(sessions_arg) < MaxMissed
    /\ sessions_arg' = Append(sessions_arg, SessionOf("missed"))
    /\ score' = [returned |-> TRUE,
                  value |-> calc_productivity_score(subjects, sessions_arg')]
    /\ UNCHANGED <<subjects, hours_per_day, frame, ranked, dbVars>>

ScoreNext == FirstScore \/ ScoreAfterMiss

SpecScore == ScoreInit /\ [][ScoreNext]_vars

---------------------------------------------------------------------------
(* Spec: the request handlers on the database.  A request is served as a whole; the
   user of a request is any registered user (login_required). *)

\* users registered, subjects and sessions ever stored, and weeks gone by, at most
MaxUsers == 2

MaxSubjectId == 2

MaxSessionId == 3

MaxWeek == 1

\* total_hours a subject is posted with: 3.0
SysHours == {300}

\* priority a subject is posted with: medium (adjust_missed raises it)
SysPriorities == {2}

\* deadline a subject is posted with: the day 30 days after the first week's start
SysDeadlines == {DateIn(30)}

\* hours_per_day posted to the settings: 2.0 (5.0 is the default)
SysCapacities == {200}

\* status posted to a session: the three the pages send, and another string
StatusChoices == {"pending", "done", "missed", "skipped"}

LoggedIn == 1..Len(db_settings)

\* the rows of a table in id order
RECURSIVE SeqById(_)
SeqById(rows) ==
    IF rows = {} THEN <<>>
    ELSE LET r == CHOOSE x \in rows : \A y \in rows : x["id"] <= y["id"]
         IN  <<r>> \o SeqById(rows \ {r})

RECURSIVE SumHours(_)
SumHours(rows) ==
    IF rows = {} THEN 0
    ELSE LET r == CHOOSE x \in rows : TRUE IN r.hours + SumHours(rows \ {r})

\* line 112-117 read the deadline against today, the first day of the current week
AsOfWeek(row, wk) ==
    [row EXCEPT !.deadline = IF @.parses THEN DateIn(@.offset - 7 * wk) ELSE @]

\* SELECT * FROM subjects WHERE user_id=?
SubjectsOf(uid, wk) ==
    SeqById({AsOfWeek(r, wk) : r \in {x \in db_subjects : x.user_id = uid}})

\* subject_id IN (SELECT id FROM subjects WHERE user_id=?)
SubjectIdsOf(uid) == {r["id"] : r \in {x \in db_subjects : x.user_id = uid}}

\* sessions s JOIN subjects sub ON s.subject_id = sub.id WHERE s.week_start=? AND sub.user_id=?
WeekSessionsOf(uid, wk) ==
    {s \in db_sessions : s.week_start = wk /\ s.subject_id \in SubjectIdsOf(uid)}

\* SELECT value FROM settings WHERE key='hours_per_day' AND user_id=?, 5.0 without a row
HoursPerDayOf(uid) == IF uid \in DOMAIN db_settings THEN db_settings[uid] ELSE 500

\* lines 179-186: the hours of the subject's done sessions of every week
get_completed_hours(subject_id) ==
    CHOOSE h \in Round1(SumHours({s \in db_sessions :
                                    s.subject_id = subject_id /\ s.status = "done"})) : TRUE

\* plan.items(): the blocks of the plan from Monday to Sunday
RECURSIVE PlanRowsFrom(_, _)
PlanRowsFrom(plan, i) ==
    IF i > Len(DAYS) THEN <<>>
    ELSE [k \in 1..Len(plan[DAYS[i]]) |->
             [subject_id |-> plan[DAYS[i]][k].subject_id,
              day_name   |-> DAYS[i],
              hours      |-> plan[DAYS[i]][k].hours]] \o PlanRowsFrom(plan, i + 1)

\* lines 395 and 496: the status a new session is stored with
NewStatus == "pending"

\* lines 391-396 and 492-497: one INSERT per block, ids from the AUTOINCREMENT
InsertedSessions(plan, wk) ==
    LET rows == PlanRowsFrom(plan, 1)
    IN  {[id         |-> session_seq + k,
          subject_id |-> rows[k].subject_id,
          day_name   |-> rows[k].day_name,
          hours      |-> rows[k].hours,
          week_start |-> wk,
          status     |-> NewStatus] : k \in 1..Len(rows)}

SysInit ==
    /\ subjects = <<>>
    /\ hours_per_day = 500
    /\ frame = NotCalled
    /\ ranked = NotRanked
    /\ sessions_arg = <<>>
    /\ score = NotScored
    /\ NoDb

\* lines 227-268, a registration that passes the form checks
Register ==
    /\ Len(db_settings) < MaxUsers
    /\ db_settings' = Append(db_settings, 500)
    /\ response' = [ok |-> TRUE]
    /\ UNCHANGED <<callVars, connVars, db_subjects, db_sessions, subject_seq, session_seq, week>>

\* lines 302-317
AddSubject(uid, total_hours, priority, deadline) ==
    /\ subject_seq < MaxSubjectId
    /\ subject_seq' = subject_seq + 1
    /\ db_subjects' = db_subjects \cup
           {[id |-> subject_seq + 1, user_id |-> uid, total_hours |-> total_hours,
             priority |-> priority, deadline |-> deadline]}
    /\ response' = [ok |-> TRUE]
    /\ UNCHANGED <<callVars, connVars, db_sessions, db_settings, session_seq, week>>

\* lines 319-327
DeleteSubject(uid, sid) ==
    /\ db_subjects' = {r \in db_subjects : ~(r["id"] = sid /\ r.user_id = uid)}
    /\ db_sessions' = {s \in db_sessions : s.subject_id # sid}
    /\ response' = [ok |-> TRUE]
    /\ UNCHANGED <<callVars, connVars, db_settings, subject_seq, session_seq, week>>

\* lines 329-340
UpdateSubject(uid, sid, total_hours, priority, deadline) ==
    /\ db_subjects' =
           {IF r["id"] = sid /\ r.user_id = uid
            THEN [r EXCEPT !.total_hours = total_hours, !.priority = priority,
                           !.deadline = deadline]
            ELSE r : r \in db_subjects}
    /\ response' = [ok |-> TRUE]
    /\ UNCHANGED <<callVars, connVars, db_sessions, db_settings, subject_seq, session_seq, week>>

\* lines 353-363, posting hours_per_day
SaveSettings(uid, value) ==
    /\ db_settings' = [db_settings EXCEPT ![uid] = value]
    /\ response' = [ok |-> TRUE]
    /\ UNCHANGED <<callVars, connVars, db_subjects, db_sessions, subject_seq, session_seq, week>>


\* the DELETE of generate_plan sparing the sessions that are not pending
GenerateDeletedPending(uid, wk) == {s \in WeekSessionsOf(uid, wk) : s.status = "pending"}

\* lines 386-389: DELETE FROM sessions WHERE week_start=? AND subject_id IN (the user's)
GenerateDeleted(uid, wk) == WeekSessionsOf(uid, wk)

\* lines 367-399
GeneratePlan(uid) ==
    LET subs == SubjectsOf(uid, week)
    IN  IF subs = <<>>
        THEN /\ response' = [error |-> "No subjects added yet"]
             /\ UNCHANGED <<callVars, connVars, db_subjects, db_sessions, db_settings,
                            subject_seq, session_seq, week>>
        ELSE \E plan \in ai_generate_plan(subs, HoursPerDayOf(uid)) :
                /\ session_seq + NumBlocks(plan) <= MaxSessionId
                /\ db_sessions' = (db_sessions \ GenerateDeleted(uid, week))
                                      \cup InsertedSessions(plan, week)
                /\ session_seq' = session_seq + NumBlocks(plan)
                /\ response' = [ok |-> TRUE, week_start |-> week]
                /\ UNCHANGED <<callVars, connVars, db_subjects, db_settings, subject_seq, week>>

\* lines 427-436: the posted status is stored as it comes, on the session of that id
update_session_status(uid, session_id, status) ==
    /\ db_sessions' = {IF s["id"] = session_id THEN [s EXCEPT !.status = status] ELSE s :
                          s \in db_sessions}
    /\ response' = [ok |-> TRUE]
    /\ UNCHANGED <<callVars, connVars, db_subjects, db_settings, subject_seq, session_seq, week>>

\* lines 464-469
MissedIds(uid, wk) == {s.subject_id : s \in {x \in WeekSessionsOf(uid, wk) : x.status = "missed"}}

\* the DELETE of adjust_missed taking the done and missed sessions too
AdjustDeletedAll(uid, wk) == WeekSessionsOf(uid, wk)

\* lines 488-491: DELETE FROM sessions WHERE week_start=? AND status='pending' AND
\* subject_id IN (the user's)
AdjustDeleted(uid, wk) == {s \in WeekSessionsOf(uid, wk) : s.status = "pending"}

\* the raise of lines 475-477 without its ceiling
BumpedSubjectsUncapped(ids) ==
    {IF r["id"] \in ids THEN [r EXCEPT !.priority = @ + 1] ELSE r : r \in db_subjects}

\* lines 475-477
BumpedSubjects(ids) ==
    {IF r["id"] \in ids THEN [r EXCEPT !.priority = Min2(3, @ + 1)] ELSE r : r \in db_subjects}

\* the early return never taken
NoneMissedNever(ids) == FALSE

\* line 471: if not missed_ids
NoneMissed(ids) == ids = {}

\* lines 457-500
AdjustMissed(uid) ==
    LET missed_ids == MissedIds(uid, week)
        bumped     == BumpedSubjects(missed_ids)
        subs       == SeqById({AsOfWeek(r, week) : r \in {x \in bumped : x.user_id = uid}})
    IN  IF NoneMissed(missed_ids)
        THEN /\ response' = [ok |-> FALSE, message |-> "No missed sessions found"]
             /\ UNCHANGED <<callVars, connVars, db_subjects, db_sessions, db_settings,
                            subject_seq, session_seq, week>>
        ELSE \E plan \in ai_generate_plan(subs, HoursPerDayOf(uid)) :
                /\ session_seq + NumBlocks(plan) <= MaxSessionId
                /\ db_subjects' = bumped
                /\ db_sessions' = (db_sessions \ AdjustDeleted(uid, week))
                                      \cup InsertedSessions(plan, week)
                /\ session_seq' = session_seq + NumBlocks(plan)
                /\ response' = [ok |-> TRUE, adjusted |-> Cardinality(missed_ids)]
                /\ UNCHANGED <<callVars, connVars, db_settings, subject_seq, week>>

\* lines 507-516: the user's subjects with their completed hours
ProgressSubjects(uid) ==
    LET subs == SubjectsOf(uid, week)
    IN  [i \in 1..Len(subs) |->
            [id |-> subs[i]["id"], total_hours |-> subs[i].total_hours,
             priority |-> subs[i]["priority"], deadline |-> subs[i].deadline,
             completed_hours |-> get_completed_hours(subs[i]["id"])]]

\* line 527: the score of the progress page
ProgressScore(uid) ==
    calc_productivity_score(ProgressSubjects(uid), SeqById(WeekSessionsOf(uid, week)))

\* lines 502-543
GetProgress(uid) ==
    /\ response' = [score |-> ProgressScore(uid),
                    total_hours |-> SumField(ProgressSubjects(uid), "total_hours"),
                    completed_hours |-> SumField(ProgressSubjects(uid), "completed_hours"),
                    missed_count |-> MissedCount(SeqById(WeekSessionsOf(uid, week)))]
    /\ UNCHANGED <<callVars, connVars, db_subjects, db_sessions, db_settings,
                   subject_seq, session_seq, week>>

\* lines 188-190: the Monday get_week_start returns moves on with the calendar
NextWeek ==
    /\ week < MaxWeek
    /\ week' = week + 1
    /\ UNCHANGED <<callVars, connVars, db_subjects, db_sessions, db_settings,
                   subject_seq, session_seq, response>>

Next ==
    \/ Register
    \/ \E uid \in LoggedIn, th \in SysHours, pr \in SysPriorities, dl \in SysDeadlines :
           AddSubject(uid, th, pr, dl)
    \/ \E uid \in LoggedIn, sid \in 1..MaxSubjectId : DeleteSubject(uid, sid)
    \/ \E uid \in LoggedIn, sid \in 1..MaxSubjectId, th \in SysHours,
          pr \in SysPriorities, dl \in SysDeadlines : UpdateSubject(uid, sid, th, pr, dl)
    \/ \E uid \in LoggedIn, v \in SysCapacities : SaveSettings(uid, v)
    \/ \E uid \in LoggedIn : GeneratePlan(uid)
    \/ \E uid \in LoggedIn, id \in 1..MaxSessionId, st \in StatusChoices :
           update_session_status(uid, id, st)
    \/ \E uid \in LoggedIn : AdjustMissed(uid)
    \/ \E uid \in LoggedIn : GetProgress(uid)
    \/ NextWeek

Spec == SysInit /\ [][Next]_vars

---------------------------------------------------------------------------
(* SpecWeek: the requests that regenerate and mark the sessions, for users whose
   subjects and daily capacity are given and stay as they are *)

\* total_hours of the subjects: 0, 1.0 and 3.0
WeekHours == {0, 100, 300}

\* the subject tables n posted subjects leave, owners among the users
SubjectTables(n, users) ==
    {{[id |-> i, user_id |-> own[i], total_hours |-> th[i], priority |-> pr[i],
       deadline |-> dl[i]] : i \in 1..n} :
        <<own, th, pr, dl>> \in [1..n -> users] \X [1..n -> WeekHours]
                                  \X [1..n -> SysPriorities] \X [1..n -> SysDeadlines]}

WeekInit ==
    /\ subjects = <<>>
    /\ hours_per_day = 500
    /\ frame = NotCalled
    /\ ranked = NotRanked
    /\ sessions_arg = <<>>
    /\ score = NotScored
    /\ db_settings \in [1..MaxUsers -> SysCapacities \cup {500}]
    /\ subject_seq \in 1..MaxSubjectId
    /\ db_subjects \in SubjectTables(subject_seq, 1..MaxUsers)
    /\ db_sessions = {}
    /\ session_seq = 0
    /\ week = 0
    /\ response = [ok |-> TRUE]
    /\ reqs = <<>>
    /\ db_lock = 0
    /\ commits = <<>>

WeekNext ==
    \/ \E uid \in LoggedIn : GeneratePlan(uid)
    \/ \E uid \in LoggedIn, id \in 1..MaxSessionId, st \in StatusChoices :
           update_session_status(uid, id, st)
    \/ \E uid \in LoggedIn : AdjustMissed(uid)
    \/ NextWeek

SpecWeek == WeekInit /\ [][WeekNext]_vars

---------------------------------------------------------------------------
(* SpecRace: two regenerations of one user's week running side by side, each on the
   connection get_db opened for it, one statement at a time.  sqlite3.connect opens
   the connection in the default transaction mode: a BEGIN goes before the first
   UPDATE, DELETE or INSERT, the connection then holds the write lock of the
   database file until conn.commit(), and the other connection sees what it wrote
   from the commit on.  A connection that finds the lock taken waits, and gives up
   with "database is locked" when the wait runs out. *)

\* the user both requests come from
RaceUser == 1

Requests == {1, 2}

\* hours_per_day of the user: 2.0 and 5.0
RaceCapacities == {200, 500}

\* a request at its first statement: pc is where it stands, missed_ids, rows (the
\* blocks of its plan) and k (blocks inserted so far) are its locals, deleted and
\* inserted what its open transaction has written
StartOf(op) ==
    [op |-> op, pc |-> IF op = "adjust" THEN "missed" ELSE "plan",
     missed_ids |-> {}, rows |-> <<>>, k |-> 0, deleted |-> {}, inserted |-> {}]

\* the week as an earlier generate_plan and the status posts after it left it
StoredWeeks(subs, hpd) ==
    UNION {LET rows == PlanRowsFrom(plan, 1)
           IN  {{[id         |-> k,
                  subject_id |-> rows[k].subject_id,
                  day_name   |-> rows[k].day_name,
                  hours      |-> rows[k].hours,
                  week_start |-> 0,
                  status     |-> st[k]] : k \in 1..Len(rows)} :
                    st \in [1..Len(rows) -> {"pending", "done", "missed"}]}
           : plan \in ai_generate_plan(subs, hpd)}

RaceInit ==
    /\ subjects = <<>>
    /\ hours_per_day = 500
    /\ frame = NotCalled
    /\ ranked = NotRanked
    /\ sessions_arg = <<>>
    /\ score = NotScored
    /\ db_settings \in {<<c>> : c \in RaceCapacities}
    /\ subject_seq = 1
    /\ db_subjects \in SubjectTables(1, {RaceUser})
    /\ db_sessions \in StoredWeeks(SeqById(db_subjects), db_settings[RaceUser])
    /\ session_seq = Cardinality(db_sessions)
    /\ week = 0
    /\ response = [ok |-> TRUE]
    /\ reqs \in [Requests -> {StartOf(op) : op \in {"generate", "adjust"}}]
    /\ db_lock = 0
    /\ commits = <<>>

\* the write lock taken for free whoever holds it
WriteLockIgnored == TRUE

\* lines 386, 477 and 488: the BEGIN before the first write of a transaction gets the
\* write lock only when no other connection holds it
WriteLockFree == db_lock = 0

\* lines 464-473 of adjust_missed
ReadMissed(r) ==
    /\ reqs[r].pc = "missed"
    /\ LET ids == MissedIds(RaceUser, week)
       IN  IF NoneMissed(ids)
           THEN /\ reqs' = [reqs EXCEPT ![r].pc = "done"]
                /\ response' = [ok |-> FALSE, message |-> "No missed sessions found"]
           ELSE /\ reqs' = [reqs EXCEPT ![r].pc = "bump", ![r].missed_ids = ids]
                /\ UNCHANGED response
    /\ UNCHANGED <<callVars, db_subjects, db_sessions, db_settings, subject_seq,
                   session_seq, week, db_lock, commits>>

\* lines 475-479 of adjust_missed: the UPDATEs and their commit, one write transaction
Bump(r) ==
    /\ reqs[r].pc = "bump"
    /\ WriteLockFree
    /\ db_subjects' = BumpedSubjects(reqs[r].missed_ids)
    /\ reqs' = [reqs EXCEPT ![r].pc = "plan"]
    /\ UNCHANGED <<callVars, db_sessions, db_settings, subject_seq, session_seq, week,
                   response, db_lock, commits>>

\* lines 373-384 of generate_plan, 481-486 of adjust_missed
ReadPlan(r) ==
    /\ reqs[r].pc = "plan"
    /\ LET subs == SubjectsOf(RaceUser, week)
       IN  IF subs = <<>> /\ reqs[r].op = "generate"
           THEN /\ reqs' = [reqs EXCEPT ![r].pc = "done"]
                /\ response' = [error |-> "No subjects added yet"]
           ELSE /\ \E plan \in ai_generate_plan(subs, HoursPerDayOf(RaceUser)) :
                       reqs' = [reqs EXCEPT ![r].pc = "delete",
                                            ![r].rows = PlanRowsFrom(plan, 1)]
                /\ UNCHANGED response
    /\ UNCHANGED <<callVars, db_subjects, db_sessions, db_settings, subject_seq,
                   session_seq, week, db_lock, commits>>

\* lines 386-389 of generate_plan, 488-491 of adjust_missed: the DELETE opens the
\* transaction
Delete(r) ==
    /\ reqs[r].pc = "delete"
    /\ WriteLockFree
    /\ db_lock' = r
    /\ reqs' = [reqs EXCEPT ![r].pc = "insert",
                            ![r].deleted = IF reqs[r].op = "generate"
                                           THEN GenerateDeleted(RaceUser, week)
                                           ELSE AdjustDeleted(RaceUser, week)]
    /\ UNCHANGED <<callVars, db_subjects, db_sessions, db_settings, subject_seq,
                   session_seq, week, response, commits>>

\* lines 393-396 and 494-497: the INSERT of the next block
Insert(r) ==
    /\ reqs[r].pc = "insert"
    /\ reqs[r].k < Len(reqs[r].rows)
    /\ LET b == reqs[r].rows[reqs[r].k + 1]
       IN  reqs' = [reqs EXCEPT ![r].k = @ + 1,
                                ![r].inserted = @ \cup
                                    {[id         |-> session_seq + 1,
                                      subject_id |-> b.subject_id,
                                      day_name   |-> b.day_name,
                                      hours      |-> b.hours,
                                      week_start |-> week,
                                      status     |-> NewStatus]}]
    /\ session_seq' = session_seq + 1
    /\ UNCHANGED <<callVars, db_subjects, db_sessions, db_settings, subject_seq, week,
                   response, db_lock, commits>>

\* lines 397-399 and 498-500: conn.commit() stores what the transaction wrote and
\* gives the lock back
Commit(r) ==
    /\ reqs[r].pc = "insert"
    /\ reqs[r].k = Len(reqs[r].rows)
    /\ db_sessions' = (db_sessions \ reqs[r].deleted) \cup reqs[r].inserted
    /\ db_lock' = 0
    /\ commits' = Append(commits, r)
    /\ reqs' = [reqs EXCEPT ![r].pc = "done"]
    /\ response' = IF reqs[r].op = "generate"
                   THEN [ok |-> TRUE, week_start |-> week]
                   ELSE [ok |-> TRUE, adjusted |-> Cardinality(reqs[r].missed_ids)]
    /\ UNCHANGED <<callVars, db_subjects, db_settings, subject_seq, session_seq, week>>

\* lines 386, 477 and 488 with the lock held by the other connection until the wait
\* runs out: sqlite3.OperationalError, the request ends without a write
Busy(r) ==
    /\ reqs[r].pc \in {"bump", "delete"}
    /\ ~WriteLockFree
    /\ reqs' = [reqs EXCEPT ![r].pc = "failed"]
    /\ response' = [error |-> "database is locked"]
    /\ UNCHANGED <<callVars, db_subjects, db_sessions, db_settings, subject_seq,
                   session_seq, week, db_lock, commits>>

RaceNext ==
    \E r \in Requests :
        \/ ReadMissed(r)
        \/ Bump(r)
        \/ ReadPlan(r)
        \/ Delete(r)
        \/ Insert(r)
        \/ Commit(r)
        \/ Busy(r)

\* every request is served by a thread of its own, which runs on until it has answered
SpecRace == RaceInit /\ [][RaceNext]_vars /\ WF_vars(RaceNext)

---------------------------------------------------------------------------
(* Claims about the request handlers, checked under SpecWeek *)

\* a request of uid that adjust_missed answered with ok: true
AdjustedBy(uid) == "adjusted" \in DOMAIN response' /\ AdjustMissed(uid)

\* a request of uid that generate_plan answered with ok: true
GeneratedBy(uid) == "week_start" \in DOMAIN response' /\ GeneratePlan(uid)

\* the sessions the request has inserted
NewSessions == {s \in db_sessions' : s["id"] > session_seq}

\* subject, day and hours of sessions, in the order of their ids
BlocksOf(rows) ==
    LET sq == SeqById(rows)
    IN  [k \in 1..Len(sq) |-> [subject_id |-> sq[k].subject_id,
                               day_name   |-> sq[k].day_name,
                               hours      |-> sq[k].hours]]

\* the sessions are the blocks of a full plan for uid's subjects as they are after
\* the request, all pending and of the current week
FreshPlanOf(rows, uid) ==
    /\ \A s \in rows : s.status = "pending" /\ s.week_start = week
    /\ \E plan \in ai_generate_plan(
                        SeqById({AsOfWeek(r, week) : r \in {x \in db_subjects' : x.user_id = uid}}),
                        HoursPerDayOf(uid)) :
           BlocksOf(rows) = PlanRowsFrom(plan, 1)

\* C11: a successful adjust_missed leaves the done and missed sessions of the current
\* week as they are, removes the user's pending sessions of that week, and inserts
\* exactly the blocks of a fresh full plan as new pending sessions
C11_AdjustMissedFrame ==
    [][\A uid \in LoggedIn : AdjustedBy(uid) =>
          /\ \A s \in WeekSessionsOf(uid, week) :
                 /\ s.status \in {"done", "missed"} => s \in db_sessions'
                 /\ s.status = "pending" => \A t \in db_sessions' : t["id"] # s["id"]
          /\ FreshPlanOf(NewSessions, uid)
          /\ db_sessions' \ NewSessions \subseteq db_sessions]_vars

\* C11 witness: adjust_missed has answered ok, and the week holds a missed and a done
\* session from before next to a pending session it inserted
C11_Witness ==
    /\ "adjusted" \in DOMAIN response
    /\ \E a, b, c \in db_sessions :
          /\ a.status = "missed" /\ b.status = "done" /\ c.status = "pending"
          /\ a.week_start = week /\ b.week_start = week /\ c.week_start = week
          /\ a.subject_id = c.subject_id /\ b.subject_id = c.subject_id
          /\ c["id"] > a["id"] /\ c["id"] > b["id"]

\* the user's subject has a missed session in the current week
HasMissed(r, uid) ==
    /\ r.user_id = uid
    /\ \E s \in db_sessions :
          s.subject_id = r["id"] /\ s.week_start = week /\ s.status = "missed"

\* C12: a successful adjust_missed sets the priority of exactly the acting user's
\* subjects with a missed session in the current week to min(3, priority + 1), leaves
\* every other subject as it is, and raises no priority past 3
C12_PriorityRaised ==
    [][\A uid \in LoggedIn : AdjustedBy(uid) =>
          /\ {r["id"] : r \in db_subjects'} = {r["id"] : r \in db_subjects}
          /\ \A r \in db_subjects : \A t \in db_subjects' :
                 t["id"] = r["id"] =>
                    IF HasMissed(r, uid)
                    THEN /\ t = [r EXCEPT !.priority =
                                     IF r["priority"] + 1 < 3 THEN r["priority"] + 1 ELSE 3]
                         /\ t["priority"] <= 3
                    ELSE t = r]_vars

\* C12 witness: adjust_missed has answered ok for a user with a subject at priority 3
\* that has a missed session, while a subject of another user that has a missed
\* session too is still at the priority it was posted with
C12_Witness ==
    /\ "adjusted" \in DOMAIN response
    /\ \E r, t \in db_subjects :
          /\ r.user_id # t.user_id
          /\ r["priority"] = 3 /\ t["priority"] = 2
          /\ \E a, b \in db_sessions :
                /\ a.subject_id = r["id"] /\ a.status = "missed" /\ a.week_start = week
                /\ b.subject_id = t["id"] /\ b.status = "missed" /\ b.week_start = week

\* C13: after a successful generate_plan the stored sessions of the current week for
\* the user's subjects are exactly the blocks of the fresh full plan, all pending, and
\* no session of that week from before the call remains
C13_GenerateReplacesWeek ==
    [][\A uid \in LoggedIn : GeneratedBy(uid) =>
          /\ {s \in db_sessions' : s.week_start = week /\ s.subject_id \in SubjectIdsOf(uid)}
                 = NewSessions
          /\ FreshPlanOf(NewSessions, uid)
          /\ \A s \in WeekSessionsOf(uid, week) : \A t \in db_sessions' : t["id"] # s["id"]]_vars

\* C13 witness: generate_plan has answered ok after the week held a done session: the
\* ids below the stored pending sessions of the week are gone, and a session of the
\* week before is still there
C13_Witness ==
    /\ "week_start" \in DOMAIN response
    /\ week = 1
    /\ \E s \in db_sessions : s.week_start = 1 /\ s.status = "pending" /\ s["id"] = session_seq
    /\ \E s \in db_sessions : s.week_start = 0 /\ s.status = "done"
    /\ Cardinality(db_sessions) < session_seq

\* C19: with the capacity and the subject set fixed, after any sequence of
\* generate_plan, update_session_status and adjust_missed the hours of a user's stored
\* sessions of the current week, whatever their status, add up to the user's
\* hours_per_day at most on every day
C19_StoredDayWithinCapacity ==
    \A uid \in LoggedIn : \A d \in DayNames :
        SumHours({s \in WeekSessionsOf(uid, week) : s.day_name = d}) <= HoursPerDayOf(uid)

\* C21: adjust_missed for a user with no missed session in the current week answers
\* ok: false and leaves every subject, priorities included, and every session as it
\* is; generate_plan for a user with no subject answers with an error and leaves
\* every session as it is
C21_EarlyReturnsChangeNothing ==
    [][\A uid \in LoggedIn :
          /\ (MissedIds(uid, week) = {} /\ AdjustMissed(uid)) =>
                 /\ response'.ok = FALSE
                 /\ db_subjects' = db_subjects
                 /\ db_sessions' = db_sessions
          /\ (SubjectsOf(uid, week) = <<>> /\ GeneratePlan(uid)) =>
                 /\ "error" \in DOMAIN response'
                 /\ db_sessions' = db_sessions]_vars

\* C21 witness: adjust_missed has answered ok: false for a user whose week holds a done
\* and a pending session and no missed one, while a subject of another user has a
\* missed session
C21_Witness ==
    /\ "message" \in DOMAIN response
    /\ response.ok = FALSE
    /\ \E uid \in LoggedIn :
          /\ MissedIds(uid, week) = {}
          /\ \E a, b \in WeekSessionsOf(uid, week) : a.status = "done" /\ b.status = "pending"
          /\ \E other \in LoggedIn \ {uid} : MissedIds(other, week) # {}

\* generate_plan has answered with its error for a user with no subject, the sessions
\* of another user stored
NoSubjectsErrorSeen ==
    /\ "error" \in DOMAIN response
    /\ db_sessions # {}
    /\ \E uid \in LoggedIn : SubjectsOf(uid, week) = <<>>

---------------------------------------------------------------------------
(* Claims about regenerations running side by side, checked under SpecRace *)

\* every request has answered
Finished == \A r \in Requests : reqs[r].pc \in {"done", "failed"}

\* the stored pending sessions of the user's week
PendingOfWeek == {s \in WeekSessionsOf(RaceUser, week) : s.status = "pending"}

\* the pending sessions of the week are the blocks of the plan one of the requests made
OnePlanStored == \E r \in Requests : BlocksOf(PendingOfWeek) = reqs[r].rows

---------------------------------------------------------------------------
(* Claims about the stored sessions and the progress score, checked under Spec *)

\* C8: the productivity score the progress page returns is in 0..100
C8_ScoreInRange ==
    "score" \in DOMAIN response => (response.score >= 0 /\ response.score <= 100)

\* C10: every stored session has status pending, done or missed
C10_StatusValid ==
    \A s \in db_sessions : s.status \in {"pending", "done", "missed"}

\* the sessions that belong to a subject of a user other than uid
SessionsOfOthers(uid) ==
    {s \in db_sessions : \E r \in db_subjects : r["id"] = s.subject_id /\ r.user_id # uid}

\* a request of uid to update_session_status, delete_subject, generate_plan or
\* adjust_missed
RequestBy(uid) ==
    \/ \E id \in 1..MaxSessionId, st \in StatusChoices : update_session_status(uid, id, st)
    \/ \E sid \in 1..MaxSubjectId : DeleteSubject(uid, sid)
    \/ GeneratePlan(uid)
    \/ AdjustMissed(uid)

\* C20: a request of one user leaves every session that belongs to a subject of
\* another user stored, with the status it had
C20_OtherUsersUntouched ==
    [][\A uid \in LoggedIn : RequestBy(uid) => SessionsOfOthers(uid) \subseteq db_sessions']_vars

---------------------------------------------------------------------------
(* Claims about calc_productivity_score, checked under SpecScore *)

ScoreTotal == SumField(subjects, "total_hours")

ScoreDone == SumField(subjects, "completed_hours")

\* C9: with the subjects fixed, one more missed session never raises the score; the
\* score is never below 0; and no number of missed sessions takes more than 25
\* points off: the score is at least done / total * 100 - 25, rounded (10 missed
\* sessions at 50% give 25)
C9_ScoreMonotoneFlooredCapped ==
    /\ [](score.returned =>
            /\ score.value >= 0
            /\ ScoreTotal > 0 =>
                  2 * ScoreTotal * score.value >= 200 * ScoreDone - 51 * ScoreTotal
            /\ (ScoreTotal > 0 /\ 2 * ScoreDone = ScoreTotal /\ MissedCount(sessions_arg) >= 9)
                  => score.value = 25)
    /\ [][score.returned => score'.value <= score.value]_vars

\* C9 witness: 10 missed sessions at 50% completion, scored 25
C9_Witness ==
    /\ score.returned
    /\ MissedCount(sessions_arg) = 10
    /\ ScoreTotal > 0
    /\ 2 * ScoreDone = ScoreTotal
    /\ score.value = 25

---------------------------------------------------------------------------
(* Claims about the ranking, checked under SpecRank *)

\* urgency = priority * 10 + min(50, 100 / daysLeft) as a real number: the exact
\* fraction num / den
ExactUrgency(s) ==
    LET d == days_until(s.deadline)
    IN  [num |-> s["priority"] * 10 * d + Min2(50 * d, 100), den |-> d]

ExactLess(u, v) == u.num * v.den < v.num * u.den

ExactEqual(u, v) == u.num * v.den = v.num * u.den

\* where the subject with this id stands in a list
PlaceOf(list, id) == CHOOSE k \in 1..Len(list) : list[k]["id"] = id

IsPermutation(out, in) ==
    /\ Len(out) = Len(in)
    /\ \A i \in 1..Len(in) : \E k \in 1..Len(out) : out[k] = in[i]
    /\ \A j, k \in 1..Len(out) : out[j]["id"] = out[k]["id"] => j = k

NonIncreasing(out) ==
    \A j, k \in 1..Len(out) :
        j < k => ~ExactLess(ExactUrgency(out[j]), ExactUrgency(out[k]))

\* subjects of equal urgency keep their input order
StableOnEqualUrgency(out, in) ==
    \A i, j \in 1..Len(in) :
        (i < j /\ ExactEqual(ExactUrgency(in[i]), ExactUrgency(in[j]))) =>
            PlaceOf(out, in[i]["id"]) < PlaceOf(out, in[j]["id"])

\* subjects whose urgency keys compare equal keep their input order
StableOnEqualKey(out, in) ==
    \A i, j \in 1..Len(in) :
        (i < j /\ ~UrgencyLess(urgency(in[i]), urgency(in[j]))
               /\ ~UrgencyLess(urgency(in[j]), urgency(in[i]))) =>
            PlaceOf(out, in[i]["id"]) < PlaceOf(out, in[j]["id"])

\* the two rankings of the module, once made
RankingsMade ==
    (IF ranked.returned THEN {ranked.value} ELSE {})
        \cup (IF frame.pc = "for" THEN {frame.sorted_subs} ELSE {})

\* C6 as stated: the ranking is a permutation of its input in non-increasing
\* urgency, subjects of equal urgency in their input order, and rank([]) = []
C6_RankStableOnEqualUrgency ==
    /\ \A out \in RankingsMade :
          /\ IsPermutation(out, subjects)
          /\ NonIncreasing(out)
          /\ StableOnEqualUrgency(out, subjects)
    /\ (ranked.returned /\ subjects = <<>>) => ranked.value = <<>>

\* C6, amended: the ranking is a permutation of its input in non-increasing urgency,
\* subjects whose urgency as computed in double precision is equal (so those of
\* identical priority and deadline) in their input order, and rank([]) = []
C6_RankStableOnComputedUrgency ==
    /\ \A out \in RankingsMade :
          /\ IsPermutation(out, subjects)
          /\ NonIncreasing(out)
          /\ StableOnEqualKey(out, subjects)
    /\ (ranked.returned /\ subjects = <<>>) => ranked.value = <<>>

\* C6 witness: two subjects of the same priority, due in one and in two days, have
\* the same urgency and are ranked in their input order
C6_Witness ==
    /\ ranked.returned
    /\ Len(subjects) = 2
    /\ subjects[1]["priority"] = subjects[2]["priority"]
    /\ subjects[1].deadline = DateIn(2)
    /\ subjects[2].deadline = DateIn(1)
    /\ ranked.value = subjects

\* C16: ai_generate_plan processes the subjects by priority descending, and those of
\* one priority by deadline ascending
C16_PriorityThenDeadline ==
    frame.pc = "for" =>
        \A j, k \in 1..Len(frame.sorted_subs) :
            j < k =>
                LET a == frame.sorted_subs[j]
                    b == frame.sorted_subs[k]
                IN  /\ a["priority"] >= b["priority"]
                    /\ (a["priority"] = b["priority"] /\ a.deadline.parses /\ b.deadline.parses)
                           => a.deadline.offset <= b.deadline.offset

---------------------------------------------------------------------------
(* Claims about ai_generate_plan, checked under SpecPlan *)

RECURSIVE SeqHours(_)
SeqHours(blocks) == IF blocks = <<>> THEN 0 ELSE Head(blocks).hours + SeqHours(Tail(blocks))

\* the blocks of a day that belong to subject id
OfSubject(blocks, id) == SelectSeq(blocks, LAMBDA b : b.subject_id = id)

\* hours placed on day d
DaySum(p, d) == SeqHours(p[d])

RECURSIVE SubjectSumTo(_, _, _)
SubjectSumTo(p, id, i) ==
    IF i = 0 THEN 0 ELSE SeqHours(OfSubject(p[DAYS[i]], id)) + SubjectSumTo(p, id, i - 1)

\* hours placed for subject id over the whole plan
SubjectSum(p, id) == SubjectSumTo(p, id, Len(DAYS))

RECURSIVE TotalHoursOf(_)
TotalHoursOf(subs) ==
    IF subs = <<>> THEN 0 ELSE Head(subs)["total_hours"] + TotalHoursOf(Tail(subs))

\* every block of the plan, as a set of <<day, position>>
BlockPlaces(p) == {<<d, k>> \in DayNames \X (1..MaxBlocks + 1) : k <= Len(p[d])}

\* the input subject a block belongs to
SubjectOfBlock(b) == CHOOSE sub \in {subjects[i] : i \in 1..Len(subjects)} : sub["id"] = b.subject_id

Returned == frame.pc = "done"

\* half the rounding unit: the most one round(., 1) adds
HalfTenth == Tenth \div 2

OnTenths(x) == x % Tenth = 0

AllOnTenths ==
    /\ OnTenths(hours_per_day)
    /\ \A i \in 1..Len(subjects) : OnTenths(subjects[i]["total_hours"])

\* C1 as stated (capacities >= 0): in the returned plan the hours of every day
\* sum to at most the daily capacity, whatever the capacity and the total hours
C1_DayNeverOverCapacity ==
    (Returned /\ hours_per_day >= 0) =>
        \A d \in DayNames : DaySum(frame.plan, d) <= hours_per_day

\* C1, amended: in the returned plan a day's hours are at most the daily capacity when
\* the capacity is a multiple of 0.1 (and >= 0); otherwise they exceed it by at most
\* 0.05, half the rounding unit; with a capacity <= 0 every day is empty
C1_DayWithinRoundedCapacity ==
    Returned =>
        \A d \in DayNames :
            /\ hours_per_day <= 0 => frame.plan[d] = <<>>
            /\ hours_per_day > 0 => DaySum(frame.plan, d) <= hours_per_day + HalfTenth
            /\ (hours_per_day > 0 /\ OnTenths(hours_per_day)) =>
                   DaySum(frame.plan, d) <= hours_per_day

\* C1 witness: a returned plan with a day filled exactly to a capacity on the tenths,
\* by blocks of two subjects
C1_Witness ==
    /\ Returned
    /\ hours_per_day > 0
    /\ AllOnTenths
    /\ \E d \in DayNames :
          /\ DaySum(frame.plan, d) = hours_per_day
          /\ \E j, k \in 1..Len(frame.plan[d]) :
                frame.plan[d][j].subject_id # frame.plan[d][k].subject_id

\* C2: a subject's blocks sum to at most its total_hours, whatever the
\* total_hours
C2_SubjectNeverOverTotal ==
    Returned =>
        \A i \in 1..Len(subjects) :
            SubjectSum(frame.plan, subjects[i]["id"]) <= subjects[i]["total_hours"]

WeekSuffices == hours_per_day > 0 /\ 7 * hours_per_day >= TotalHoursOf(subjects)

\* C3: when 7 * capacity covers the total hours, every subject's blocks
\* sum to exactly its total_hours
C3_ExactWhenWeekSuffices ==
    (Returned /\ WeekSuffices) =>
        \A i \in 1..Len(subjects) :
            SubjectSum(frame.plan, subjects[i]["id"]) = subjects[i]["total_hours"]

\* C4: every emitted block is at most 3.0 h for priority 3, 2.0 h for priority 2 and
\* 1.5 h for any other priority
C4_BlockWithinCeiling ==
    \A pl \in BlockPlaces(frame.plan) :
        LET b  == frame.plan[pl[1]][pl[2]]
            pr == SubjectOfBlock(b)["priority"]
        IN  b.hours <= (IF pr = 3 THEN 300 ELSE IF pr = 2 THEN 200 ELSE 150)

\* C4 witness: a returned plan with a block at its ceiling for priority 3 and one at
\* its ceiling for a priority that is neither 3 nor 2
C4_Witness ==
    /\ Returned
    /\ \E pl \in BlockPlaces(frame.plan) :
          LET b == frame.plan[pl[1]][pl[2]]
          IN  SubjectOfBlock(b)["priority"] = 3 /\ b.hours = 300
    /\ \E pl \in BlockPlaces(frame.plan) :
          LET b == frame.plan[pl[1]][pl[2]]
          IN  SubjectOfBlock(b)["priority"] \notin {2, 3} /\ b.hours = 150

\* C5: every emitted block has hours > 0
C5_BlockPositive ==
    \A pl \in BlockPlaces(frame.plan) : frame.plan[pl[1]][pl[2]].hours > 0

\* C7: for an empty subject list or a capacity <= 0 the plan has the 7 day names and
\* every day is empty, at every step of the call and in the returned plan
C7_EmptyPlan ==
    (frame.pc # "call" /\ (subjects = <<>> \/ hours_per_day <= 0)) =>
        /\ DOMAIN frame.plan = DayNames
        /\ Cardinality(DayNames) = 7
        /\ \A d \in DayNames : frame.plan[d] = <<>>

\* C7 witness: the call returned for subjects with hours to place and a capacity <= 0,
\* the day cursor run to the end of the week
C7_Witness ==
    /\ Returned
    /\ hours_per_day <= 0
    /\ frame.day_idx = 7
    /\ \E i \in 1..Len(subjects) : subjects[i]["total_hours"] > 0

\* C14: every iteration of the while loop advances the day cursor or strictly
\* decreases remaining, so that ai_generate_plan terminates
C14_IterationProgress ==
    [][(frame.pc = "while" /\ WhileCond(frame) /\ frame'.pc = "while") =>
          (frame'.day_idx > frame.day_idx \/ frame'.remaining < frame.remaining)]_vars

\* C15: the blocks of one subject on one day add up to 3 hours at most
C15_SubjectDayWithinThree ==
    \A d \in DayNames : \A i \in 1..Len(subjects) :
        SeqHours(OfSubject(frame.plan[d], subjects[i]["id"])) <= 300

\* the place of every block in the ranking, the plan read from Monday to Sunday
RanksInReadingOrder(f) ==
    LET rows == PlanRowsFrom(f.plan, 1)
    IN  [k \in 1..Len(rows) |-> PlaceOf(f.sorted_subs, rows[k].subject_id)]

\* C17: read from Monday to Sunday the blocks of a subject form one run, the runs
\* follow the ranking, and no block is emitted once the day cursor is at 7
C17_RunsInRankedOrder ==
    /\ [](LET ranks == RanksInReadingOrder(frame)
          IN  \A k \in 1..(Len(ranks) - 1) : ranks[k] <= ranks[k + 1])
    /\ [][frame.day_idx = 7 => frame'.plan = frame.plan]_vars

\* C17 witness: a returned plan with a day shared by the two subjects, the first one
\* placed over several days, the day cursor at 7 with hours of the second unplaced
C17_Witness ==
    /\ Returned
    /\ frame.day_idx = 7
    /\ frame.remaining > 0
    /\ \E d \in DayNames :
          /\ Len(frame.plan[d]) = 2
          /\ frame.plan[d][1].subject_id # frame.plan[d][2].subject_id
          /\ \E e \in DayNames \ {d} :
                 Len(frame.plan[e]) > 0 /\ frame.plan[e][1].subject_id = frame.plan[d][1].subject_id

=============================================================================
